---- MODULE Spec2Model ----
(***************************************************************************)
(* Model of backupbot: the FileVersion value type, the version rotation    *)
(* of versioning.py, the helper-container batch of shell_backup,            *)
(* BackupBot.run with the stopped_system context manager, and the helpers  *)
(* tar_file_or_directory, discover_config_files and docker_exec_loop.      *)
(* Each subsystem has its own specification over the shared variables; a   *)
(* subsystem that a specification does not exercise stays in its idle      *)
(* state.                                                                  *)
(***************************************************************************)
EXTENDS Integers, Sequences, FiniteSets, TLC

VARIABLES
    fv,         \* the FileVersion object under test: [major, minor]
    fvOther,    \* a second FileVersion (right operand of comparisons)
    fvThird,    \* a third FileVersion (for chains of comparisons)
    fvOp,       \* name of the last FileVersion method called on fv
    fvPrev,     \* value of fv when that method was entered
    fvRaised,   \* whether that method raised NotImplementedError
    cmp,        \* results of the last comparison fv ? fvOther
    dirExists,  \* whether the path given to update_version_numbers is a directory
    dir,        \* the directory: file name -> [content, ctime]
    major,      \* the major argument of update_version_numbers
    uv_pc,      \* position of update_version_numbers: idle, renaming, returned, raised
    uvExc,      \* the exception update_version_numbers raised, if any
    plan,       \* old_new_pairs of the running / last call
    ri,         \* index into plan of the next rename
    calls,      \* number of update_version_numbers calls started
    dir0,       \* the directory before the first call
    dirAfter1,  \* the directory when the first call ended
    items,      \* backup_items, the batch given to shell_backup
    idx,        \* index of the backup item the for loop is at
    sb_pc,      \* position of shell_backup: run, exec, stop, check, finally, record, returned, raised
    mapping,    \* the local variable mapping (a Path, None, or not yet assigned)
    inflight,   \* the exception raised in the try block, if any
    result,     \* backup_temporary_file_mapping
    log,        \* the log records written so far
    staging,    \* names of the files in bind_mount_dir
    running,    \* indices of the items whose helper container is running
    cur,        \* what happened to the current item so far
    hist,       \* what happened to every finished item
    sbExc,      \* the exception that left shell_backup, if any
    storageInfo,    \* keys of the storage_info given to stopped_system
    composeValid,   \* whether config_files[0] is an existing .yaml file
    containers,     \* docker state of the containers of the compose system
    containers0,    \* that state when stopped_system was entered
    ss_pc,          \* position of run in "with stopped_system(...)": enter, sampled, block, tasks, exit, left, returned, raised
    system_running, \* the local variable system_running
    stopRes,        \* outcome of docker_compose_stop: none, ok, invalid, nonzero
    startRes,       \* outcome of docker_compose_start: none, ok, invalid, nonzero
    issued,         \* how often each docker-compose command was run
    tasks,          \* backup_tasks, flattened: the kind of every task in order
    ti,             \* index of the task the loops of _run_backup_tasks are at
    stats,          \* the stats dictionary of _run_backup_tasks
    thist,          \* outcome of every task attempted so far
    rlog,           \* log records written by run and _run_backup_tasks
    blockEnded,     \* how the body of the with statement ended: no, normal, raised
    runCalls,       \* the methods run has called so far
    ssExc,          \* the exception that left run, if any
    dest,           \* names of the files in the destination of tar_file_or_directory
    tarCalls,       \* number of tar_file_or_directory calls made
    tarLast,        \* what the last tar_file_or_directory call did
    config_files,   \* self.config_files of the DockerComposeBackupAdapter
    rootFiles,      \* the docker-compose.yaml files under root
    dcCalls,        \* number of discover_config_files calls made
    dcLast,         \* outcome of the last discover_config_files call
    el_pc,          \* position of docker_exec_loop: exec, check, returned, raised
    now,            \* time.time()
    start,          \* the local variable start
    timeout_s,      \* the argument timeout_s
    attempts,       \* number of docker_exec calls made
    elLast          \* the last docker_exec attempt: whether it failed and the time elapsed at its check

fvVars == <<fv, fvOther, fvThird, fvOp, fvPrev, fvRaised, cmp>>

rotVars == <<dirExists, dir, major, uv_pc, uvExc, plan, ri, calls, dir0, dirAfter1>>

shVars == <<items, idx, sb_pc, mapping, inflight, result, log, staging, running, cur, hist, sbExc>>

runVars ==
    <<storageInfo, composeValid, containers, containers0, ss_pc, system_running, stopRes,
      startRes, issued, tasks, ti, stats, thist, rlog, blockEnded, runCalls, ssExc>>

tarVars == <<dest, tarCalls, tarLast>>

discVars == <<config_files, rootFiles, dcCalls, dcLast>>

loopVars == <<el_pc, now, start, timeout_s, attempts, elLast>>

utilVars == <<tarVars, discVars, loopVars>>

vars == <<fvVars, rotVars, shVars, runVars, utilVars>>

\* Python's None where a FileVersion is expected
None == [none |-> TRUE]

----------------------------------------------------------------------------
(* Bounds *)

\* largest field value a FileVersion is driven to by increase_* calls
MaxField == 2

\* largest number of files the directory holds before the first call
MaxFiles == 3

\* largest major / minor number embedded in a file name before the first call
MaxV == 1

\* number of consecutive update_version_numbers calls on the directory
MaxCalls == 2

\* largest number of backup items in one shell_backup batch
MaxItems == 2

\* largest number of backup tasks in one run
MaxTasks == 2

\* largest number of tar_file_or_directory calls
MaxTars == 2

\* largest timeout_s given to docker_exec_loop, and the time the clock runs for
MaxTimeout == 3

\* the number of docker_exec attempts up to which they are counted
MaxAttempts == 3

\* largest number of discover_config_files calls on one adapter
MaxDisc == 2

\* largest number k of an archive <tar_name>(k).tar.gz in the destination at first
MaxNum == 1

----------------------------------------------------------------------------
(* data_structures.py: FileVersion *)

FileVersion(ma, mi) == [major |-> ma, minor |-> mi]

Versions(n) == {FileVersion(ma, mi) : ma \in 0..n, mi \in 0..n}

\* Every method returns the new object state and whether it raised.
increase_major(v) == [v |-> [v EXCEPT !.major = v.major + 1], raised |-> FALSE]

increase_minor(v) == [v |-> [v EXCEPT !.minor = v.minor + 1], raised |-> FALSE]

decrease_major(v) ==
    IF v.major = 0
    THEN [v |-> v, raised |-> TRUE]
    ELSE [v |-> [v EXCEPT !.major = v.major - 1], raised |-> FALSE]

\* decrease_minor without the check for zero
decrease_minor_unguarded(v) ==
    [v |-> [v EXCEPT !.minor = v.minor - 1], raised |-> FALSE]

decrease_minor(v) ==
    IF v.minor = 0
    THEN [v |-> v, raised |-> TRUE]
    ELSE [v |-> [v EXCEPT !.minor = v.minor - 1], raised |-> FALSE]

FileVersion_eq(a, b) == a.major = b.major /\ a.minor = b.minor

FileVersion_lt(a, b) == IF a.major < b.major THEN TRUE ELSE a.minor < b.minor

FileVersion_gt(a, b) == IF a.major > b.major THEN TRUE ELSE a.minor > b.minor

\* The order the documentation describes: major first, minor on equal major.
LexLess(a, b) == a.major < b.major \/ (a.major = b.major /\ a.minor < b.minor)

----------------------------------------------------------------------------
(* File names.  A name is a sequence of tokens: a stem, "-", ".", decimal  *)
(* digits and the file ending.  "a-0-1.txt" is                             *)
(* <<"a", "-", "0", "-", "1", ".", "txt">>.                                 *)

DigitTok == <<"0", "1", "2", "3", "4", "5", "6", "7", "8", "9">>

IsDigit(t) == \E i \in 1..Len(DigitTok) : DigitTok[i] = t

DigitVal(t) == (CHOOSE i \in 1..Len(DigitTok) : DigitTok[i] = t) - 1

\* str(n) of a non-negative int, as the f-strings of create_target_names format it
RECURSIVE str_int(_)
str_int(n) ==
    IF n < Len(DigitTok)
    THEN <<DigitTok[n + 1]>>
    ELSE str_int(n \div Len(DigitTok)) \o <<DigitTok[(n % Len(DigitTok)) + 1]>>

\* the argument file_ending ("txt" in the unit tests, "tar.gz" in BackupBot)
file_ending == "txt"

\* stems of the files that already carry a version
Stems == {"a"}

\* stems of the files that carry no version yet
NewStems == {"a", "b"}

UnversionedName(stem) == <<stem, ".", file_ending>>

VersionedName(stem, ma, mi) ==
    <<stem, "-">> \o str_int(ma) \o <<"-">> \o str_int(mi) \o <<".", file_ending>>

\* a file of the directory that does not end in file_ending
OtherName == <<"a", ".", "log">>

name_endswith(name, ending) == Len(name) > 0 /\ name[Len(name)] = ending

\* VERSIONING_TO_PATTERN["d-d"] = \d-\d\. matched at position i of name
VERSIONING_TO_PATTERN(name, i) ==
    /\ i >= 1 /\ i + 3 <= Len(name)
    /\ IsDigit(name[i])
    /\ name[i + 1] = "-"
    /\ IsDigit(name[i + 2])
    /\ name[i + 3] = "."

\* re.findall: start positions of the non-overlapping matches, left to right
RECURSIVE re_findall_from(_, _)
re_findall_from(name, i) ==
    IF i > Len(name) THEN <<>>
    ELSE IF VERSIONING_TO_PATTERN(name, i)
         THEN <<i>> \o re_findall_from(name, i + 4)
         ELSE re_findall_from(name, i + 1)

re_findall(name) == re_findall_from(name, 1)

re_search(name) == \E i \in 1..Len(name) : VERSIONING_TO_PATTERN(name, i)

\* re.sub: every non-overlapping match replaced by repl
RECURSIVE re_sub_from(_, _, _)
re_sub_from(repl, name, i) ==
    IF i > Len(name) THEN <<>>
    ELSE IF VERSIONING_TO_PATTERN(name, i)
         THEN repl \o re_sub_from(repl, name, i + 4)
         ELSE <<name[i]>> \o re_sub_from(repl, name, i + 1)

re_sub(repl, name) == re_sub_from(repl, name, 1)

\* str.replace(old, new) for a two-token old: every occurrence replaced
RECURSIVE str_replace_from(_, _, _, _)
str_replace_from(name, old, new, i) ==
    IF i > Len(name) THEN <<>>
    ELSE IF i + 1 <= Len(name) /\ name[i] = old[1] /\ name[i + 1] = old[2]
         THEN new \o str_replace_from(name, old, new, i + 2)
         ELSE <<name[i]>> \o str_replace_from(name, old, new, i + 1)

str_replace(name, old, new) == str_replace_from(name, old, new, 1)

----------------------------------------------------------------------------
(* versioning.py *)

get_file_version(file_name) ==
    LET matches == re_findall(file_name)
    IN  IF matches = <<>>
        THEN None
        ELSE LET p == matches[Len(matches)]
             IN  FileVersion(DigitVal(file_name[p]), DigitVal(file_name[p + 2]))

RECURSIVE get_max_version_loop(_, _, _)
get_max_version_loop(files, i, max) ==
    IF i > Len(files) THEN max
    ELSE LET version == get_file_version(files[i])
         IN  IF version = None THEN get_max_version_loop(files, i + 1, max)
             ELSE IF max = None THEN get_max_version_loop(files, i + 1, version)
             ELSE IF FileVersion_gt(version, max)
                  THEN get_max_version_loop(files, i + 1, version)
                  ELSE get_max_version_loop(files, i + 1, max)

get_max_version_number(files) == get_max_version_loop(files, 1, None)

\* a naming that leaves a file without version as it is
updated_name_versioned_only(name, version) ==
    LET vs == str_int(version.major) \o <<"-">> \o str_int(version.minor)
    IN  IF ~re_search(name) THEN name ELSE re_sub(vs \o <<".">>, name)

\* the name create_target_names gives a file for the current version
updated_name(name, version) ==
    LET vs == str_int(version.major) \o <<"-">> \o str_int(version.minor)
    IN  IF ~re_search(name)
        THEN str_replace(name, <<".", file_ending>>, <<"-">> \o vs \o <<".", file_ending>>)
        ELSE re_sub(vs \o <<".">>, name)

\* the for loop of create_target_names; i is the 1-based index of the file
RECURSIVE create_target_names_loop(_, _, _, _, _)
create_target_names_loop(files, maj, i, version, pairs) ==
    LET done == Append(pairs, <<files[i], updated_name(files[i], version)>>)
    IN  IF i < Len(files)
        THEN LET dec == IF maj THEN decrease_major(version) ELSE decrease_minor(version)
             IN  IF dec.raised
                 THEN [raised |-> TRUE, pairs |-> done]
                 ELSE create_target_names_loop(files, maj, i + 1, dec.v, done)
        ELSE [raised |-> FALSE, pairs |-> done]

\* create_target_names with the oldest file numbered n instead of n-1
create_target_names_off_by_one(files, maj) ==
    IF Len(files) = 0
    THEN [raised |-> FALSE, pairs |-> <<>>]
    ELSE LET max == get_max_version_number(files)
             version ==
                IF max = None THEN FileVersion(0, 0)
                ELSE IF maj THEN [max EXCEPT !.major = Len(files)]
                     ELSE [max EXCEPT !.minor = Len(files)]
         IN  create_target_names_loop(files, maj, 1, version, <<>>)

\* files arrive sorted oldest first (see sorted_by_ctime)
create_target_names(files, maj) ==
    IF Len(files) = 0
    THEN [raised |-> FALSE, pairs |-> <<>>]
    ELSE LET max == get_max_version_number(files)
             version ==
                IF max = None THEN FileVersion(0, 0)
                ELSE IF maj THEN [max EXCEPT !.major = Len(files) - 1]
                     ELSE [max EXCEPT !.minor = Len(files) - 1]
         IN  create_target_names_loop(files, maj, 1, version, <<>>)

\* sorted(files, key=lambda x: x.lstat().st_ctime) over the names in S
RECURSIVE sorted_by_ctime(_, _)
sorted_by_ctime(d, S) ==
    IF S = {} THEN <<>>
    ELSE LET oldest == CHOOSE x \in S : \A y \in S : d[x].ctime <= d[y].ctime
         IN  <<oldest>> \o sorted_by_ctime(d, S \ {oldest})

\* the files update_version_numbers lists: those ending in file_ending
matching_files(d) == {n \in DOMAIN d : name_endswith(n, file_ending)}

\* a rename that copies: the file appears at new and stays at old
rename_keeps_old(d, old, new) ==
    [n \in DOMAIN d \cup {new} |-> IF n = new THEN d[old] ELSE d[n]]

\* Path.rename on POSIX: the file moves, a file already at new is replaced;
\* the file keeps its creation time
rename(d, old, new) ==
    IF old = new THEN d
    ELSE [n \in (DOMAIN d \ {old}) \cup {new} |-> IF n = new THEN d[old] ELSE d[n]]

----------------------------------------------------------------------------
(* docker_compose/container_utils.py: BackupItem and the dictionary it keys *)

Str(x) == [str |-> x]

Path(x) == [cls |-> "Path", path |-> x]

BackupItem(command, file_name, final_path, exec) ==
    [cls |-> "BackupItem", command |-> command, file_name |-> file_name,
     final_path |-> final_path, exec |-> exec]

\* the destination of an item: the identity the specification gives it
Identity(item) == <<item.file_name, item.final_path>>

\* the __eq__ that @dataclass generates: every field takes part (compare=True)
BackupItem_eq(a, b) ==
    /\ a.command = b.command
    /\ a.file_name = b.file_name
    /\ a.final_path = b.final_path
    /\ a.exec = b.exec

\* the __hash__ that unsafe_hash=True generates: the fields with hash=True
BackupItem_hash(a) == <<a.file_name, a.final_path>>

\* == between two Python objects: objects of different classes are unequal
py_eq(a, b) ==
    IF a.cls # b.cls THEN FALSE
    ELSE IF a.cls = "BackupItem" THEN BackupItem_eq(a, b)
    ELSE a.path = b.path

\* key in d
dict_contains(d, key) == \E k \in DOMAIN d : py_eq(k, key)

\* d[key] = value: an equal key keeps its entry and takes the new value
dict_setitem(d, key, value) ==
    LET same == {k \in DOMAIN d : BackupItem_hash(k) = BackupItem_hash(key) /\ py_eq(k, key)}
    IN  IF same = {}
        THEN [k \in DOMAIN d \cup {key} |-> IF k = key THEN value ELSE d[k]]
        ELSE [k \in DOMAIN d |-> IF k \in same THEN value ELSE d[k]]

\* the staged path taken without looking whether the file exists
staged_file_unchecked(files, file_name) == Path(file_name)

\* lines 190-196: the staged file, or None when it does not exist
staged_file(files, file_name) ==
    IF file_name \in files THEN Path(file_name) ELSE None

\* a try block without the except clause
except_nothing(exc) == FALSE

\* "except ContainerError": which exceptions of the try block are caught
except_ContainerError(exc) == exc = "ContainerError"

\* a stop that leaves the container running
container_stop_noop(containersRunning, i) == containersRunning

\* lines 188 and 203: Container.stop() of the helper container of item i
container_stop(containersRunning, i) == containersRunning \ {i}

\* a finally clause whose stop attempt is not guarded: what it raises leaves
finally_stop_unguarded(stopRaises, pending) ==
    IF stopRaises THEN "Exception" ELSE pending

\* lines 201-205: the exception that leaves the finally clause; what the stop
\* attempt raises is swallowed, so the pending exception (if any) remains
finally_stop(stopRaises, pending) == pending

----------------------------------------------------------------------------
(* docker_compose/container_utils.py: docker_exec_loop *)

\* a clock reading that never moves away from start
time_elapsed_frozen(t0, t) == 0

\* line 127: time.time() - start
time_elapsed(t0, t) == t - t0

\* a deadline that is taken as passed one second early
deadline_passed_early(elapsed, timeout) == elapsed + 1 >= timeout

\* line 127: time.time() - start >= timeout_s
deadline_passed(elapsed, timeout) == elapsed >= timeout

----------------------------------------------------------------------------
(* utils.py: match_files and tar_file_or_directory *)

\* pattern in name
str_contains(name, pattern) ==
    \E i \in 1..(Len(name) - Len(pattern) + 1) :
        SubSeq(name, i, i + Len(pattern) - 1) = pattern

\* name.replace(".tar.gz", "")
RECURSIVE str_remove(_, _)
str_remove(name, tok) ==
    IF name = <<>> THEN <<>>
    ELSE IF Head(name) = tok THEN str_remove(Tail(name), tok)
    ELSE <<Head(name)>> \o str_remove(Tail(name), tok)

\* name.split("(")[0]
RECURSIVE str_before(_, _)
str_before(name, tok) ==
    IF name = <<>> \/ Head(name) = tok THEN <<>>
    ELSE <<Head(name)>> \o str_before(Tail(name), tok)

\* file.name: the last component of a path
RECURSIVE path_name(_)
path_name(path) ==
    IF str_contains(path, <<"/">>) THEN path_name(Tail(path)) ELSE path

\* match_files: the files under root whose name contains pattern
match_files(files, pattern) == {f \in files : str_contains(path_name(f), pattern)}

\* the orders in which the files of S can be appended to a list
Orderings(S) ==
    {q \in [1..Cardinality(S) -> S] : \A i, j \in 1..Cardinality(S) : i # j => q[i] # q[j]}

\* backup.py line 35: match_files appends what it finds to self.config_files
found_files(config, found) == config \o found

\* utils.py lines 106-115: the path the archive is written to
tar_file_path(files, tar_name, override) ==
    LET plain == tar_name \o <<".tar.gz">>
    IN  IF plain \in files /\ ~override
        THEN LET stripped == str_remove(plain, ".tar.gz")
                 bare_name == IF str_contains(stripped, <<"(">>)
                              THEN str_before(stripped, "(")
                              ELSE stripped
                 existing_files == match_files(files, bare_name)
             IN  tar_name \o <<"(">> \o str_int(Cardinality(existing_files) - 1)
                     \o <<")", ".tar.gz">>
        ELSE plain

----------------------------------------------------------------------------
(* docker_compose/backup.py: stopped_system, and backupbot.py: run *)

\* a system that counts as running whatever was sampled
system_running_always(names, runningNames) == TRUE

\* line 108: any([name in running_containers for name in storage_info.keys()])
system_running_any(names, runningNames) == \E name \in names : name \in runningNames

\* a stop that is only issued for a system that counts as running
stop_if_running(wasRunning) == wasRunning

\* line 110: the stop is issued whatever system_running is
stop_before_yield(wasRunning) == TRUE

\* a docker-compose command whose failure is not raised
docker_compose_unchecked(valid, rc) ==
    [issued |-> valid,
     raised |-> FALSE,
     res |-> IF ~valid THEN "invalid" ELSE IF rc # 0 THEN "nonzero" ELSE "ok"]

\* docker_compose_stop / docker_compose_start: the command is run only for a
\* compose file that is an existing .yaml file; a rejected file and a non-zero
\* exit code raise RuntimeError
docker_compose_command(valid, rc) ==
    [issued |-> valid,
     raised |-> ~valid \/ rc # 0,
     res |-> IF ~valid THEN "invalid" ELSE IF rc # 0 THEN "nonzero" ELSE "ok"]

\* the containers after a docker-compose stop that reached the set done
after_stop(state, done) == [s \in DOMAIN state |-> IF s \in done THEN "exited" ELSE state[s]]

\* the containers after a docker-compose start that reached the set done
after_start(state, done) == [s \in DOMAIN state |-> IF s \in done THEN "running" ELSE state[s]]

\* lines 179-190: the exceptions of a task that _run_backup_tasks catches
except_task_errors(exc) ==
    exc \in {"NotImplementedError", "NotADirectoryError", "RuntimeError",
             "BackupNotExistingContainerError"}

\* what a task call can end with: it returns its created files (all of them,
\* or fewer when an item failed inside shell_backup), or it raises
TaskOutcomes ==
    {"ok", "item_failed", "NotImplementedError", "NotADirectoryError", "RuntimeError",
     "BackupNotExistingContainerError", "TimeoutError", "KeyError"}

----------------------------------------------------------------------------
(* Specification of the FileVersion value type *)

NoCmp == [done |-> FALSE, lt |-> FALSE, gt |-> FALSE, eq |-> FALSE]

FvIdle ==
    /\ fv = FileVersion(0, 0)
    /\ fvOther = FileVersion(0, 0)
    /\ fvThird = FileVersion(0, 0)
    /\ fvOp = "init"
    /\ fvPrev = FileVersion(0, 0)
    /\ fvRaised = FALSE
    /\ cmp = NoCmp

RotIdle ==
    /\ dirExists = FALSE
    /\ dir = <<>>
    /\ major = FALSE
    /\ uv_pc = "idle"
    /\ uvExc = "none"
    /\ plan = <<>>
    /\ ri = 1
    /\ calls = 0
    /\ dir0 = <<>>
    /\ dirAfter1 = <<>>

NoCur ==
    [ran |-> "no", exists |-> FALSE, cleanup |-> FALSE, stopRaised |-> FALSE,
     ended |-> "no", value |-> None]

ShIdle ==
    /\ items = <<>>
    /\ idx = 1
    /\ sb_pc = "idle"
    /\ mapping = None
    /\ inflight = "none"
    /\ result = <<>>
    /\ log = <<>>
    /\ staging = {}
    /\ running = {}
    /\ cur = NoCur
    /\ hist = <<>>
    /\ sbExc = "none"

\* the compose system of two services
Services == {"A", "B"}

RunIdle ==
    /\ storageInfo = {}
    /\ composeValid = FALSE
    /\ containers = [s \in Services |-> "exited"]
    /\ containers0 = containers
    /\ ss_pc = "idle"
    /\ system_running = FALSE
    /\ stopRes = "none"
    /\ startRes = "none"
    /\ issued = [stop |-> 0, start |-> 0]
    /\ tasks = <<>>
    /\ ti = 1
    /\ stats = [success |-> 0, error |-> 0]
    /\ thist = <<>>
    /\ rlog = <<>>
    /\ blockEnded = "no"
    /\ runCalls = <<>>
    /\ ssExc = "none"

TarIdle ==
    /\ dest = {}
    /\ tarCalls = 0
    /\ tarLast = [path |-> <<>>, existed |-> FALSE, raised |-> "none", override |-> FALSE]

DiscIdle ==
    /\ config_files = <<>>
    /\ rootFiles = {}
    /\ dcCalls = 0
    /\ dcLast = [raised |-> FALSE, returned |-> <<>>]

LoopIdle ==
    /\ el_pc = "idle"
    /\ now = 0
    /\ start = 0
    /\ timeout_s = 0
    /\ attempts = 0
    /\ elLast = [failed |-> FALSE, elapsed |-> 0]

UtilIdle == TarIdle /\ DiscIdle /\ LoopIdle

InitFV ==
    /\ RotIdle
    /\ ShIdle
    /\ RunIdle
    /\ UtilIdle
    /\ fv \in Versions(MaxField)
    /\ fvOther \in Versions(MaxField)
    /\ fvThird \in Versions(MaxField)
    /\ fvOp = "init"
    /\ fvPrev = fv
    /\ fvRaised = FALSE
    /\ cmp = NoCmp

Apply(op, r) ==
    /\ fvOp' = op
    /\ fvPrev' = fv
    /\ fv' = r.v
    /\ fvRaised' = r.raised
    /\ cmp' = NoCmp
    /\ UNCHANGED <<fvOther, fvThird, rotVars, shVars, runVars, utilVars>>

IncreaseMajor == fv.major < MaxField /\ Apply("increase_major", increase_major(fv))

IncreaseMinor == fv.minor < MaxField /\ Apply("increase_minor", increase_minor(fv))

DecreaseMajor == Apply("decrease_major", decrease_major(fv))

DecreaseMinor == Apply("decrease_minor", decrease_minor(fv))

Compare ==
    /\ ~cmp.done
    /\ cmp' = [done |-> TRUE,
               lt |-> FileVersion_lt(fv, fvOther),
               gt |-> FileVersion_gt(fv, fvOther),
               eq |-> FileVersion_eq(fv, fvOther)]
    /\ UNCHANGED <<fv, fvOther, fvThird, fvOp, fvPrev, fvRaised, rotVars, shVars, runVars, utilVars>>

NextFV ==
    \/ IncreaseMajor
    \/ IncreaseMinor
    \/ DecreaseMajor
    \/ DecreaseMinor
    \/ Compare

SpecFV == InitFV /\ [][NextFV]_vars

----------------------------------------------------------------------------
(* Specification of the version rotation: update_version_numbers is called *)
(* up to MaxCalls times on a directory of arbitrary content.               *)

NamePool ==
    {UnversionedName(s) : s \in NewStems}
        \cup {VersionedName(s, ma, mi) : s \in Stems, ma \in 0..MaxV, mi \in 0..MaxV}
        \cup {OtherName}

\* the directories of n files: names[i] is the i-th oldest file
Directories(n) ==
    {names \in [1..n -> NamePool] : \A i, j \in 1..n : i # j => names[i] # names[j]}

DirOf(names) ==
    [nm \in {names[i] : i \in 1..Len(names)} |->
        [content |-> nm, ctime |-> CHOOSE i \in 1..Len(names) : names[i] = nm]]

InitRot ==
    /\ FvIdle
    /\ ShIdle
    /\ RunIdle
    /\ UtilIdle
    /\ major \in BOOLEAN
    /\ dirExists \in BOOLEAN
    /\ IF dirExists
       THEN \E n \in 0..MaxFiles : \E names \in Directories(n) : dir = DirOf(names)
       ELSE dir = <<>>
    /\ dir0 = dir
    /\ dirAfter1 = <<>>
    /\ uv_pc = "idle"
    /\ uvExc = "none"
    /\ plan = <<>>
    /\ ri = 1
    /\ calls = 0

\* a call that does not look at the path it is given
not_a_directory_unchecked(isDir) == FALSE

\* versioning.py line 36: "if not directory.is_dir()"
not_a_directory(isDir) == ~isDir

\* remember the directory in which call number c ended, if c is the first call
EndOfCall(c, d) == dirAfter1' = IF c = 1 THEN d ELSE dirAfter1

\* update_version_numbers up to the first rename
UvnCall ==
    /\ uv_pc \in {"idle", "returned"}
    /\ calls < MaxCalls
    /\ calls' = calls + 1
    /\ ri' = 1
    /\ IF not_a_directory(dirExists)
       THEN /\ uv_pc' = "raised"
            /\ uvExc' = "NotADirectoryError"
            /\ plan' = <<>>
       ELSE LET files == sorted_by_ctime(dir, matching_files(dir))
                r == create_target_names(files, major)
            IN  IF r.raised
                THEN /\ uv_pc' = "raised"
                     /\ uvExc' = "NotImplementedError"
                     /\ plan' = <<>>
                ELSE /\ uv_pc' = IF r.pairs = <<>> THEN "returned" ELSE "renaming"
                     /\ uvExc' = "none"
                     /\ plan' = r.pairs
    /\ IF uv_pc' = "renaming" THEN UNCHANGED dirAfter1 ELSE EndOfCall(calls + 1, dir)
    /\ UNCHANGED <<dirExists, dir, major, dir0, fvVars, shVars, runVars, utilVars>>

\* one iteration of "for old_file, new_file in old_new_pairs"
UvnRename ==
    /\ uv_pc = "renaming"
    /\ ri <= Len(plan)
    /\ dir' = rename(dir, plan[ri][1], plan[ri][2])
    /\ ri' = ri + 1
    /\ uv_pc' = IF ri = Len(plan) THEN "returned" ELSE "renaming"
    /\ IF ri = Len(plan) THEN EndOfCall(calls, dir') ELSE UNCHANGED dirAfter1
    /\ UNCHANGED <<dirExists, major, uvExc, plan, calls, dir0, fvVars, shVars, runVars, utilVars>>

NextRot ==
    \/ UvnCall
    \/ UvnRename

SpecRot == InitRot /\ [][NextRot]_vars

----------------------------------------------------------------------------
(* Specification of shell_backup: one batch of backup items, each run in   *)
(* its own helper container.                                               *)

\* volume items carry a command, database items an exec command
ItemPool ==
    {BackupItem(Str(c), f, Path(d), None) : c \in {"c1", "c2"}, f \in {"f1", "f2"}, d \in {"d1", "d2"}}
        \cup {BackupItem(None, f, Path(d), Str("e1")) : f \in {"f1", "f2"}, d \in {"d1", "d2"}}

InitSh ==
    /\ FvIdle
    /\ RotIdle
    /\ RunIdle
    /\ UtilIdle
    /\ \E n \in 0..MaxItems : items \in [1..n -> ItemPool]
    /\ idx = 1
    /\ sb_pc = "run"
    /\ mapping = None
    /\ inflight = "none"
    /\ result = <<>>
    /\ log = <<>>
    /\ staging = {}
    /\ running = {}
    /\ cur = NoCur
    /\ hist = <<>>
    /\ sbExc = "none"

LogRecord(level, msg) == [level |-> level, msg |-> msg, item |-> idx]

\* the command of a container may or may not write the backup file
Produce(produced) ==
    staging' = IF produced THEN staging \cup {items[idx].file_name} ELSE staging

\* lines 173-183: docker_client.containers.run of an item without exec command;
\* the call blocks until the container has exited and been removed
SbRunForeground ==
    /\ sb_pc = "run" /\ idx <= Len(items)
    /\ items[idx].exec = None
    /\ \E produced \in BOOLEAN, failed \in BOOLEAN :
        /\ Produce(produced)
        /\ IF failed
           THEN /\ inflight' = "ContainerError"
                /\ cur' = [NoCur EXCEPT !.ran = "ContainerError"]
                /\ sb_pc' = "finally"
           ELSE /\ inflight' = "none"
                /\ cur' = [NoCur EXCEPT !.ran = "ok"]
                /\ sb_pc' = "check"
    /\ UNCHANGED <<items, idx, mapping, result, log, running, hist, sbExc, fvVars, rotVars, runVars, utilVars>>

\* lines 173-183: containers.run with detach=True returns while the container runs
SbRunDetached ==
    /\ sb_pc = "run" /\ idx <= Len(items)
    /\ items[idx].exec # None
    /\ running' = running \cup {idx}
    /\ cur' = NoCur
    /\ sb_pc' = "exec"
    /\ UNCHANGED <<items, idx, mapping, inflight, result, log, staging, hist, sbExc, fvVars, rotVars, runVars, utilVars>>

\* line 187: docker_exec_loop returns after a successful exec or raises TimeoutError
SbExecLoop ==
    /\ sb_pc = "exec"
    /\ \E produced \in BOOLEAN, timedOut \in BOOLEAN :
        /\ Produce(produced)
        /\ IF timedOut
           THEN /\ inflight' = "TimeoutError"
                /\ cur' = [cur EXCEPT !.ran = "TimeoutError"]
                /\ sb_pc' = "finally"
           ELSE /\ inflight' = "none"
                /\ cur' = [cur EXCEPT !.ran = "ok"]
                /\ sb_pc' = "stop"
    /\ UNCHANGED <<items, idx, mapping, result, log, running, hist, sbExc, fvVars, rotVars, runVars, utilVars>>

\* line 188: container.stop()
SbStop ==
    /\ sb_pc = "stop"
    /\ running' = container_stop(running, idx)
    /\ sb_pc' = "check"
    /\ UNCHANGED <<items, idx, mapping, inflight, result, log, staging, cur, hist, sbExc, fvVars, rotVars, runVars, utilVars>>

\* lines 190-196
SbCheck ==
    /\ sb_pc = "check"
    /\ mapping' = staged_file(staging, items[idx].file_name)
    /\ log' = IF mapping' = None THEN Append(log, LogRecord("error", "no file created")) ELSE log
    /\ cur' = [cur EXCEPT !.exists = items[idx].file_name \in staging]
    /\ sb_pc' = "finally"
    /\ UNCHANGED <<items, idx, inflight, result, staging, running, hist, sbExc, fvVars, rotVars, runVars, utilVars>>

\* lines 198-205: the except clause, then the stop attempt of the finally
\* clause, whose own exception is swallowed; an exception that was not caught
\* leaves shell_backup
SbFinally ==
    /\ sb_pc = "finally"
    /\ \E stopRaises \in BOOLEAN :
        LET caught == inflight # "none" /\ except_ContainerError(inflight)
            pending == IF caught THEN "none" ELSE inflight
            leaving == finally_stop(stopRaises, pending)
            ended == [cur EXCEPT !.cleanup = TRUE, !.stopRaised = stopRaises]
        IN  /\ running' = IF stopRaises THEN running ELSE container_stop(running, idx)
            /\ IF leaving = "none"
               THEN /\ mapping' = IF caught THEN None ELSE mapping
                    /\ log' = IF caught
                              THEN Append(log, LogRecord("warning", "failed to run image"))
                              ELSE log
                    /\ cur' = ended
                    /\ sb_pc' = "record"
                    /\ UNCHANGED <<hist, sbExc>>
               ELSE /\ sbExc' = leaving
                    /\ hist' = Append(hist, [ended EXCEPT !.ended = "raised"])
                    /\ cur' = NoCur
                    /\ sb_pc' = "raised"
                    /\ UNCHANGED <<mapping, log>>
    /\ inflight' = "none"
    /\ UNCHANGED <<items, idx, result, staging, fvVars, rotVars, runVars, utilVars>>

\* lines 207-213
SbRecord ==
    /\ sb_pc = "record"
    /\ IF ~dict_contains(result, items[idx].final_path)
       THEN /\ result' = dict_setitem(result, items[idx], mapping)
            /\ hist' = Append(hist, [cur EXCEPT !.ended = "recorded", !.value = mapping])
            /\ UNCHANGED log
       ELSE /\ log' = Append(log, LogRecord("error", "mapping already exists"))
            /\ hist' = Append(hist, [cur EXCEPT !.ended = "collision"])
            /\ UNCHANGED result
    /\ cur' = NoCur
    /\ idx' = idx + 1
    /\ sb_pc' = "run"
    /\ UNCHANGED <<items, mapping, inflight, staging, running, sbExc, fvVars, rotVars, runVars, utilVars>>

\* line 215
SbReturn ==
    /\ sb_pc = "run" /\ idx > Len(items)
    /\ sb_pc' = "returned"
    /\ UNCHANGED <<items, idx, mapping, inflight, result, log, staging, running, cur, hist, sbExc, fvVars, rotVars, runVars, utilVars>>

NextSh ==
    \/ SbRunForeground
    \/ SbRunDetached
    \/ SbExecLoop
    \/ SbStop
    \/ SbCheck
    \/ SbFinally
    \/ SbRecord
    \/ SbReturn

SpecSh == InitSh /\ [][NextSh]_vars

----------------------------------------------------------------------------
(* Specification of BackupBot.run from the with statement on: the system   *)
(* is stopped, the backup tasks run, the system is started again.          *)

\* backup_tasks.items() flattened: tasks[i] is the service of the i-th task;
\* the tasks of one service follow each other
TaskLists(n) ==
    {t \in [1..n -> Services] :
        \A i, j, k \in 1..n : (i < j /\ j < k /\ t[i] = t[k]) => t[j] = t[i]}

InitRun ==
    /\ FvIdle
    /\ RotIdle
    /\ ShIdle
    /\ UtilIdle
    /\ storageInfo \in SUBSET Services
    /\ composeValid \in BOOLEAN
    /\ containers \in [Services -> {"running", "exited"}]
    /\ containers0 = containers
    /\ ss_pc = "enter"
    /\ system_running = FALSE
    /\ stopRes = "none"
    /\ startRes = "none"
    /\ issued = [stop |-> 0, start |-> 0]
    /\ \E n \in 0..MaxTasks : tasks \in TaskLists(n)
    /\ ti = 1
    /\ stats = [success |-> 0, error |-> 0]
    /\ thist = <<>>
    /\ rlog = <<>>
    /\ blockEnded = "no"
    /\ runCalls = <<>>
    /\ ssExc = "none"

RunningNames(state) == {s \in DOMAIN state : state[s] = "running"}

\* backup.py lines 105-108, entered from backupbot.py line 144
SsSample ==
    /\ ss_pc = "enter"
    /\ system_running' = system_running_any(storageInfo, RunningNames(containers))
    /\ runCalls' = Append(runCalls, "stopped_system")
    /\ ss_pc' = "sampled"
    /\ UNCHANGED <<storageInfo, composeValid, containers, containers0, stopRes, startRes, issued,
                   tasks, ti, stats, thist, rlog, blockEnded, ssExc, fvVars, rotVars, shVars, utilVars>>

\* backup.py line 110: docker_compose_stop, then the yield of line 112
SsStop ==
    /\ ss_pc = "sampled"
    /\ IF stop_before_yield(system_running)
       THEN \E rc \in {0, 1}, done \in SUBSET Services :
                LET r == docker_compose_command(composeValid, rc)
                IN  /\ (r.res = "ok") => done = Services
                    /\ (r.res = "invalid") => (done = {} /\ rc = 0)
                    /\ containers' = after_stop(containers, done)
                    /\ stopRes' = r.res
                    /\ issued' = [issued EXCEPT !.stop = @ + (IF r.issued THEN 1 ELSE 0)]
                    /\ IF r.raised
                       THEN ss_pc' = "raised" /\ ssExc' = "RuntimeError"
                       ELSE ss_pc' = "block" /\ UNCHANGED ssExc
       ELSE /\ ss_pc' = "block"
            /\ UNCHANGED <<containers, stopRes, issued, ssExc>>
    /\ UNCHANGED <<storageInfo, composeValid, containers0, system_running, startRes, tasks, ti,
                   stats, thist, rlog, blockEnded, runCalls, fvVars, rotVars, shVars, utilVars>>

\* backupbot.py line 145 and line 167: _run_backup_tasks is entered
RbEnter ==
    /\ ss_pc = "block"
    /\ runCalls' = Append(runCalls, "_run_backup_tasks")
    /\ stats' = [success |-> 0, error |-> 0]
    /\ ti' = 1
    /\ ss_pc' = "tasks"
    /\ UNCHANGED <<storageInfo, composeValid, containers, containers0, system_running, stopRes,
                   startRes, issued, tasks, thist, rlog, blockEnded, ssExc, fvVars, rotVars, shVars, utilVars>>

\* backupbot.py lines 170-190: one task; an exception that no except clause
\* names leaves _run_backup_tasks and the with statement, and the generator of
\* stopped_system, which has no try around its yield, ends with it
RbTask ==
    /\ ss_pc = "tasks" /\ ti <= Len(tasks)
    /\ \E outcome \in TaskOutcomes :
        /\ thist' = Append(thist, [service |-> tasks[ti], outcome |-> outcome])
        /\ IF outcome \in {"ok", "item_failed"}
           THEN /\ stats' = [stats EXCEPT !.success = @ + 1]
                /\ rlog' = Append(rlog, [level |-> "info", msg |-> "Finished", task |-> ti])
                /\ ti' = ti + 1
                /\ UNCHANGED <<ss_pc, blockEnded, ssExc>>
           ELSE IF except_task_errors(outcome)
           THEN /\ stats' = [stats EXCEPT !.error = @ + 1]
                /\ rlog' = Append(rlog, [level |-> "error", msg |-> "Failed to execute backup task", task |-> ti])
                /\ ti' = ti + 1
                /\ UNCHANGED <<ss_pc, blockEnded, ssExc>>
           ELSE /\ ss_pc' = "raised"
                /\ blockEnded' = "raised"
                /\ ssExc' = outcome
                /\ UNCHANGED <<stats, rlog, ti>>
    /\ UNCHANGED <<storageInfo, composeValid, containers, containers0, system_running, stopRes,
                   startRes, issued, tasks, runCalls, fvVars, rotVars, shVars, utilVars>>

\* backupbot.py line 193: _run_backup_tasks returns stats and the body of the
\* with statement is done
RbReturn ==
    /\ ss_pc = "tasks" /\ ti > Len(tasks)
    /\ blockEnded' = "normal"
    /\ ss_pc' = "exit"
    /\ UNCHANGED <<storageInfo, composeValid, containers, containers0, system_running, stopRes,
                   startRes, issued, tasks, ti, stats, thist, rlog, runCalls, ssExc,
                   fvVars, rotVars, shVars, utilVars>>

\* backup.py lines 114-115: the generator goes on after its yield
SsStart ==
    /\ ss_pc = "exit"
    /\ IF system_running
       THEN \E rc \in {0, 1}, done \in SUBSET Services :
                LET r == docker_compose_command(composeValid, rc)
                IN  /\ (r.res = "ok") => done = Services
                    /\ (r.res = "invalid") => (done = {} /\ rc = 0)
                    /\ containers' = after_start(containers, done)
                    /\ startRes' = r.res
                    /\ issued' = [issued EXCEPT !.start = @ + (IF r.issued THEN 1 ELSE 0)]
                    /\ IF r.raised
                       THEN ss_pc' = "raised" /\ ssExc' = "RuntimeError"
                       ELSE ss_pc' = "left" /\ UNCHANGED ssExc
       ELSE /\ ss_pc' = "left"
            /\ UNCHANGED <<containers, startRes, issued, ssExc>>
    /\ UNCHANGED <<storageInfo, composeValid, containers0, system_running, stopRes, tasks, ti,
                   stats, thist, rlog, blockEnded, runCalls, fvVars, rotVars, shVars, utilVars>>

\* backupbot.py lines 147-151: the statistics are logged and run returns
RunReturn ==
    /\ ss_pc = "left"
    /\ rlog' = Append(rlog, [level |-> IF stats.error = 0 THEN "info" ELSE "warning",
                             msg |-> "stat_message", task |-> 0])
    /\ ss_pc' = "returned"
    /\ UNCHANGED <<storageInfo, composeValid, containers, containers0, system_running, stopRes,
                   startRes, issued, tasks, ti, stats, thist, blockEnded, runCalls, ssExc,
                   fvVars, rotVars, shVars, utilVars>>

NextRun ==
    \/ SsSample
    \/ SsStop
    \/ RbEnter
    \/ RbTask
    \/ RbReturn
    \/ SsStart
    \/ RunReturn

SpecRun == InitRun /\ [][NextRun]_vars

----------------------------------------------------------------------------
(* Claims about the version rotation *)

\* the files of the directory the first call found, oldest first
Files0 == sorted_by_ctime(dir0, matching_files(dir0))

\* the number a name carries on the rotating axis
AxisNumber(name) ==
    IF major THEN get_file_version(name).major ELSE get_file_version(name).minor

\* the first call has computed its plan or raised
FirstCallPlanned == calls = 1 /\ dirExists /\ uv_pc # "idle"

\* C1: for every non-empty list of files with distinct creation times,
\* create_target_names does not raise, lists the files oldest first and numbers
\* them n-1 (oldest) down to 0 (newest) on the rotating axis.
C1_AgeRankNumbering ==
    (FirstCallPlanned /\ Len(Files0) > 0) =>
        /\ uv_pc # "raised"
        /\ Len(plan) = Len(Files0)
        /\ \A i \in 1..Len(plan) :
            /\ plan[i][1] = Files0[i]
            /\ get_file_version(plan[i][2]) # None
            /\ AxisNumber(plan[i][2]) = Len(Files0) - i

\* the directory before the first call is a minor chain of k versioned files
\* (version 0-i, higher i older) plus one newer unversioned file
IsMinorChain(k) ==
    /\ Len(Files0) = k + 1
    /\ get_file_version(Files0[k + 1]) = None
    /\ \A i \in 1..k : get_file_version(Files0[i]) = FileVersion(0, k - i)

\* the name at which the content that was first stored as name orig lies now
HoldersOf(orig) == {n \in DOMAIN dir : dir[n].content = orig}

\* C2: minor rotation of a chain 0..k-1 plus a newer unversioned file leaves k+1
\* files, the content of version i at version i+1, the new content at 0-0,
\* and returns k+1 pairs.
C2_ChainShiftsByOne ==
    \A k \in 0..MaxFiles :
        (calls = 1 /\ uv_pc \in {"returned", "raised"} /\ ~major /\ dirExists
                /\ IsMinorChain(k)) =>
            /\ uv_pc = "returned"
            /\ Len(plan) = k + 1
            /\ Cardinality(matching_files(dir)) = k + 1
            /\ \A i \in 1..(k + 1) :
                \E n \in HoldersOf(Files0[i]) :
                    /\ HoldersOf(Files0[i]) = {n}
                    /\ n[1] = Files0[i][1]
                    /\ get_file_version(n) = FileVersion(0, k + 1 - i)

\* a chain of two versioned files and a new one has been rotated
C2_Witness ==
    calls = 1 /\ uv_pc = "returned" /\ ~major /\ dirExists /\ IsMinorChain(2)

\* C3: rotation is idempotent: a second call on the unchanged directory maps
\* every file to itself and leaves the file names of the first call.
C3_SecondCallIsNoOp ==
    (calls = 2 /\ uv_pc = "returned") =>
        /\ \A i \in 1..Len(plan) : plan[i][1] = plan[i][2]
        /\ DOMAIN dir = DOMAIN dirAfter1

WithVersionInserted(name, ma, mi) ==
    SubSeq(name, 1, Len(name) - 2) \o <<"-">> \o str_int(ma) \o <<"-">> \o str_int(mi)
        \o SubSeq(name, Len(name) - 1, Len(name))

\* C21: a single file without version, with no versioned file next to it, is
\* mapped to its name with "-0-0" in front of the suffix, for minor and for
\* major rotation.
C21_FirstVersionIsZeroZero ==
    (FirstCallPlanned /\ Len(Files0) = 1 /\ get_file_version(Files0[1]) = None) =>
        /\ uv_pc # "raised"
        /\ plan = << <<Files0[1], WithVersionInserted(Files0[1], 0, 0)>> >>

\* the first call, a major rotation, has renamed the single unversioned file
C21_Witness ==
    /\ calls = 1 /\ uv_pc = "returned" /\ major
    /\ Len(Files0) = 1 /\ get_file_version(Files0[1]) = None
    /\ WithVersionInserted(Files0[1], 0, 0) \in DOMAIN dir

\* the number a name carries on the axis that is not rotated
OtherAxisNumber(name) ==
    IF major THEN get_file_version(name).minor ELSE get_file_version(name).major

\* C29: rotation changes only the rotating axis of a file that carries a
\* version: its number on the other axis is the same in the new name.
C29_OtherAxisPreserved ==
    (FirstCallPlanned /\ uv_pc # "raised") =>
        \A i \in 1..Len(plan) :
            get_file_version(plan[i][1]) # None =>
                /\ get_file_version(plan[i][2]) # None
                /\ OtherAxisNumber(plan[i][2]) = OtherAxisNumber(plan[i][1])

\* the names of the pairs of the plan from index i on that are not yet renamed
PendingOldNames(i) == {plan[j][1] : j \in i..Len(plan)}

\* C30: a successful update_version_numbers keeps the number of matching
\* files: the planned new names are pairwise distinct and no rename lands on
\* the name of a file that is still to be renamed.
C30_NoRenameOverwrites ==
    (FirstCallPlanned /\ uv_pc # "raised") =>
        /\ \A i, j \in 1..Len(plan) : i # j => plan[i][2] # plan[j][2]
        /\ \A i \in 1..Len(plan) : plan[i][2] \notin PendingOldNames(i + 1)
        /\ uv_pc = "returned" =>
            Cardinality(matching_files(dir)) = Cardinality(matching_files(dir0))

\* the versions embedded in the names of the files listed at first
Versions0 == {get_file_version(Files0[i]) : i \in 1..Len(Files0)} \ {None}

\* C26: get_max_version_number returns None exactly if no name embeds a
\* version, and otherwise the greatest embedded version in the order major
\* first, then minor, in whatever order the files are listed.
C26_MaxIsLexicographicMax ==
    dirExists =>
        LET max == get_max_version_number(Files0)
        IN  /\ max = None <=> Versions0 = {}
            /\ Versions0 # {} => (max \in Versions0 /\ \A v \in Versions0 : ~LexLess(max, v))

----------------------------------------------------------------------------
(* Claims about BackupItem and shell_backup *)

SameDestination(a, b) == a.file_name = b.file_name /\ a.final_path = b.final_path

\* C7: two BackupItems are equal exactly if they have the same file_name and
\* final_path, whatever their command and exec; equal items have equal hashes
\* and are one dictionary key.
C7_EqualityIsDestination ==
    /\ \A i, j \in 1..Len(items) :
        /\ BackupItem_eq(items[i], items[j]) <=> SameDestination(items[i], items[j])
        /\ BackupItem_eq(items[i], items[j]) => BackupItem_hash(items[i]) = BackupItem_hash(items[j])
    /\ \A k1, k2 \in DOMAIN result : SameDestination(k1, k2) => k1 = k2

\* item i has the destination of an earlier item of the batch
DuplicatesEarlier(i) == \E j \in 1..(i - 1) : SameDestination(items[j], items[i])

\* C8: when shell_backup returns, the mapping has exactly one entry per distinct
\* destination of the batch; an item that duplicates an earlier destination
\* adds no entry and a collision error is logged for it.
C8_OneEntryPerDestination ==
    sb_pc = "returned" =>
        /\ Cardinality(DOMAIN result) = Cardinality({Identity(items[i]) : i \in 1..Len(items)})
        /\ \A i \in 1..Len(items) :
            DuplicatesEarlier(i) =>
                /\ hist[i].ended = "collision"
                /\ \E l \in 1..Len(log) : log[l].item = i /\ log[l].msg = "mapping already exists"

\* C9: an item whose container ran without raising but left no file is
\* recorded as None, raises nothing, and the batch goes on after it.
C9_MissingFileRecordedAsNone ==
    /\ \A i \in 1..Len(hist) :
        (hist[i].ran = "ok" /\ ~hist[i].exists) =>
            /\ hist[i].ended = "recorded"
            /\ hist[i].value = None
            /\ idx > i
            /\ sb_pc = "returned" => Len(hist) = Len(items)

\* an item left no file and a later item has been recorded after it
C9_Witness ==
    /\ sb_pc = "returned"
    /\ \E i \in 1..Len(hist) : i < Len(hist) /\ hist[i].ran = "ok" /\ ~hist[i].exists

C11_TimeoutRecoveredPerItem ==
    /\ sbExc # "TimeoutError"
    /\ \A i \in 1..Len(hist) :
        hist[i].ran = "TimeoutError" =>
            /\ hist[i].ended = "recorded"
            /\ hist[i].value = None
            /\ idx > i

\* the first item of the batch with the destination of item j
FirstWith(j) ==
    CHOOSE i \in 1..j :
        /\ SameDestination(items[i], items[j])
        /\ \A l \in 1..(i - 1) : ~SameDestination(items[l], items[j])

\* C27: an item with the file_name and final_path of an earlier item is
\* dropped: the value recorded for that destination stays the result of the
\* first such item.
C27_SecondDuplicateDropped ==
    \A j \in 1..Len(hist) :
        (DuplicatesEarlier(j) /\ hist[j].ended # "raised") =>
            /\ hist[j].ended = "collision"
            /\ \A k \in DOMAIN result :
                SameDestination(k, items[j]) => result[k] = hist[FirstWith(j)].value

\* C28: at every point of shell_backup at most one helper container started
\* by it is running: the container of an item has exited or been stopped when
\* the next one is started, also when a stop attempt failed.
C28_OneContainerAtATime ==
    /\ Cardinality(running) <= 1
    /\ running \subseteq {idx}
    /\ sb_pc \in {"run", "record", "returned"} => running = {}

\* the stop attempt for a detached container raised and the detached container
\* of the next item is running
C28_Witness ==
    /\ idx >= 2 /\ running = {idx}
    /\ hist[idx - 1].stopRaised /\ items[idx - 1].exec # None

\* the result an item is recorded with, given how its container ran
ExpectedValue(i) ==
    IF hist[i].ran = "ok" /\ hist[i].exists THEN Path(items[i].file_name) ELSE None

\* C12: whatever the outcome of an item, the stop of its helper container has
\* been attempted before the next container is started or shell_backup is left;
\* what that attempt raises never leaves shell_backup and never changes what
\* the item is recorded with.
C12_StopAttemptedAndSwallowed ==
    /\ Len(hist) = (IF sb_pc = "raised" THEN idx ELSE idx - 1)
    /\ sb_pc \in {"returned", "raised"} => cur = NoCur
    /\ sbExc \in {"none", "TimeoutError"}
    /\ \A i \in 1..Len(hist) :
        /\ hist[i].ran \in {"ok", "ContainerError", "TimeoutError"}
        /\ hist[i].cleanup
        /\ hist[i].ended = (IF hist[i].ran = "TimeoutError" THEN "raised" ELSE "recorded")
        /\ hist[i].value = (IF hist[i].ended = "recorded" THEN ExpectedValue(i) ELSE None)

\* the stop attempt of an item raised, the item was recorded with its file and
\* a later item ran after it
C12_Witness ==
    \E i \in 1..Len(hist) :
        /\ i < Len(hist)
        /\ hist[i].stopRaised /\ hist[i].cleanup
        /\ hist[i].ended = "recorded" /\ hist[i].value = Path(items[i].file_name)

----------------------------------------------------------------------------
(* Claims about FileVersion *)

\* C5: FileVersion comparison is the lexicographic order on (major, minor),
\* hence total: exactly one of a < b, a == b, a > b holds, and < is transitive.
C5_LexicographicTotalOrder ==
    /\ cmp.done =>
        /\ cmp.lt <=> LexLess(fv, fvOther)
        /\ cmp.gt <=> LexLess(fvOther, fv)
        /\ (cmp.lt /\ ~cmp.eq /\ ~cmp.gt)
            \/ (~cmp.lt /\ cmp.eq /\ ~cmp.gt)
            \/ (~cmp.lt /\ ~cmp.eq /\ cmp.gt)
    /\ (FileVersion_lt(fv, fvOther) /\ FileVersion_lt(fvOther, fvThird))
            => FileVersion_lt(fv, fvThird)

\* C6: a decrease on a zero field raises and changes nothing; on a positive
\* field it subtracts exactly one from that field only; no field is negative.
C6_DecreaseNeverClamps ==
    /\ fv.major >= 0 /\ fv.minor >= 0
    /\ fvOp = "decrease_major" =>
        IF fvPrev.major = 0
        THEN fvRaised /\ fv = fvPrev
        ELSE ~fvRaised /\ fv.major = fvPrev.major - 1 /\ fv.minor = fvPrev.minor
    /\ fvOp = "decrease_minor" =>
        IF fvPrev.minor = 0
        THEN fvRaised /\ fv = fvPrev
        ELSE ~fvRaised /\ fv.minor = fvPrev.minor - 1 /\ fv.major = fvPrev.major

\* decrease_minor was called on a version with minor 0 and a positive major
C6_Witness ==
    /\ fvOp = "decrease_minor" /\ fvPrev.minor = 0 /\ fvRaised
    /\ fv.major > 0

----------------------------------------------------------------------------
(* Specification of tar_file_or_directory: archives are written into a     *)
(* destination directory of arbitrary content.                             *)

\* the names an archive is asked for
TarNames == {<<"t">>, <<"t", "(", "0", ")">>}

NumberedArchive(tar_name, k) == tar_name \o <<"(">> \o str_int(k) \o <<")", ".tar.gz">>

\* the files the destination may hold at first: the plain archive, numbered
\* archives, a file of another kind with the same stem, an unrelated archive
TarPool ==
    {<<"t", ".tar.gz">>, <<"t", ".log">>, <<"u", ".tar.gz">>}
        \cup {NumberedArchive(<<"t">>, k) : k \in 0..MaxNum}

InitTar ==
    /\ FvIdle
    /\ RotIdle
    /\ ShIdle
    /\ RunIdle
    /\ DiscIdle
    /\ LoopIdle
    /\ dest \in SUBSET TarPool
    /\ tarCalls = 0
    /\ tarLast = [path |-> <<>>, existed |-> FALSE, raised |-> "none", override |-> FALSE]

\* utils.py lines 101-127, with a destination that exists
TarCall ==
    /\ tarCalls < MaxTars
    /\ tarCalls' = tarCalls + 1
    /\ \E tar_name \in TarNames, override \in BOOLEAN, srcExists \in BOOLEAN, returncode \in {0, 1} :
        LET path == tar_file_path(dest, tar_name, override)
        IN  IF ~srcExists
            THEN /\ returncode = 0
                 /\ tarLast' = [path |-> <<>>, existed |-> FALSE, raised |-> "NotADirectoryError",
                                override |-> override]
                 /\ UNCHANGED dest
            ELSE IF returncode # 0
            THEN /\ tarLast' = [path |-> path, existed |-> path \in dest, raised |-> "RuntimeError",
                                override |-> override]
                 /\ UNCHANGED dest
            ELSE /\ tarLast' = [path |-> path, existed |-> path \in dest, raised |-> "none",
                                override |-> override]
                 /\ dest' = dest \cup {path}
    /\ UNCHANGED <<fvVars, rotVars, shVars, runVars, discVars, loopVars>>

NextTar == TarCall

SpecTar == InitTar /\ [][NextTar]_vars

----------------------------------------------------------------------------
(* Specification of discover_config_files: one adapter instance is asked   *)
(* for the compose file under the same root several times.                 *)

ComposeName == <<"docker-compose.yaml">>

\* the files root may hold: compose files in two directories, a file whose
\* name only contains the compose file name, and an unrelated file
RootPool ==
    {<<"d1", "/">> \o ComposeName, <<"d2", "/">> \o ComposeName,
     <<"d1", "/">> \o ComposeName \o <<".bak">>, <<"d1", "/", "notes.txt">>}

InitDisc ==
    /\ FvIdle
    /\ RotIdle
    /\ ShIdle
    /\ RunIdle
    /\ TarIdle
    /\ LoopIdle
    /\ rootFiles \in SUBSET RootPool
    /\ config_files = <<>>
    /\ dcCalls = 0
    /\ dcLast = [raised |-> FALSE, returned |-> <<>>]

\* backup.py lines 34-41
DiscoverConfigFiles ==
    /\ dcCalls < MaxDisc
    /\ dcCalls' = dcCalls + 1
    /\ \E found \in Orderings(match_files(rootFiles, ComposeName)) :
        /\ config_files' = found_files(config_files, found)
        /\ dcLast' = IF Len(config_files') # 1
                     THEN [raised |-> TRUE, returned |-> <<>>]
                     ELSE [raised |-> FALSE, returned |-> config_files']
    /\ UNCHANGED <<rootFiles, fvVars, rotVars, shVars, runVars, tarVars, loopVars>>

NextDisc == DiscoverConfigFiles

SpecDisc == InitDisc /\ [][NextDisc]_vars

----------------------------------------------------------------------------
(* Specification of docker_exec_loop: docker exec is retried while the     *)
(* clock runs.                                                             *)

InitLoop ==
    /\ FvIdle
    /\ RotIdle
    /\ ShIdle
    /\ RunIdle
    /\ TarIdle
    /\ DiscIdle
    /\ timeout_s \in 0..MaxTimeout
    /\ el_pc = "start"
    /\ now \in 0..MaxTimeout
    /\ start = 0
    /\ attempts = 0
    /\ elLast = [failed |-> FALSE, elapsed |-> 0]

\* line 121: start = time.time()
ElStart ==
    /\ el_pc = "start"
    /\ start' = now
    /\ el_pc' = "exec"
    /\ UNCHANGED <<now, timeout_s, attempts, elLast, fvVars, rotVars, shVars, runVars, tarVars, discVars>>

\* lines 123-126: one docker_exec; it returns, or raises RuntimeError for a
\* non-zero exit code
ElExec ==
    /\ el_pc = "exec"
    /\ attempts' = IF attempts < MaxAttempts THEN attempts + 1 ELSE attempts
    /\ \E returncode \in {0, 1} :
        /\ elLast' = [failed |-> returncode # 0, elapsed |-> elLast.elapsed]
        /\ el_pc' = IF returncode = 0 THEN "returned" ELSE "check"
    /\ UNCHANGED <<now, start, timeout_s, fvVars, rotVars, shVars, runVars, tarVars, discVars>>

\* lines 127-128: the deadline check of the except clause
ElCheck ==
    /\ el_pc = "check"
    /\ LET elapsed == time_elapsed(start, now)
       IN  /\ elLast' = [elLast EXCEPT !.elapsed = elapsed]
           /\ el_pc' = IF deadline_passed(elapsed, timeout_s) THEN "raised" ELSE "exec"
    /\ UNCHANGED <<now, start, timeout_s, attempts, fvVars, rotVars, shVars, runVars, tarVars, discVars>>

\* the clock advances while the loop runs; MaxTimeout after start every
\* deadline has passed and the reading no longer matters
Tick ==
    /\ el_pc \in {"exec", "check"}
    /\ now - start < MaxTimeout
    /\ now' = now + 1
    /\ UNCHANGED <<el_pc, start, timeout_s, attempts, elLast, fvVars, rotVars, shVars, runVars, tarVars, discVars>>

NextLoop ==
    \/ ElStart
    \/ ElExec
    \/ ElCheck
    \/ Tick

SpecLoop == InitLoop /\ [][NextLoop]_vars

\* every docker exec attempt returns, the loop goes on, the clock advances
SpecLoopFair ==
    /\ SpecLoop
    /\ WF_vars(ElStart)
    /\ WF_vars(ElExec)
    /\ WF_vars(ElCheck)
    /\ WF_vars(Tick)

----------------------------------------------------------------------------
(* Claims about docker_exec_loop *)

\* C24: docker_exec_loop makes at least one attempt before it ends, returns
\* exactly after a successful attempt, raises TimeoutError only after a failed
\* attempt at whose check at least timeout_s had elapsed, and retries after a
\* failed attempt whose check came before that.
C24_ExecLoopOutcome ==
    /\ el_pc \in {"check", "returned", "raised"} => attempts >= 1
    /\ el_pc = "returned" <=> (attempts >= 1 /\ ~elLast.failed)
    /\ el_pc = "raised" => (elLast.failed /\ elLast.elapsed >= timeout_s)
    /\ (el_pc = "exec" /\ attempts >= 1) => (elLast.failed /\ elLast.elapsed < timeout_s)

\* the loop raised TimeoutError with timeout_s = 0 after a single attempt
C24_Witness ==
    el_pc = "raised" /\ timeout_s = 0 /\ attempts = 1

\* C25: if every attempt returns and the clock keeps advancing, the loop
\* eventually returns or raises TimeoutError.
C25_ExecLoopTerminates == <>(el_pc \in {"returned", "raised"})

\* the loop raised TimeoutError after it had retried
C25_Witness ==
    el_pc = "raised" /\ timeout_s > 0 /\ attempts >= 2

----------------------------------------------------------------------------
(* Claims about discover_config_files *)

\* the files under root that are named docker-compose.yaml
ComposeFiles == {f \in rootFiles : path_name(f) = ComposeName}

\* C23: every call of discover_config_files returns the single
\* docker-compose.yaml under root if there is exactly one and raises otherwise,
\* whatever calls were made before.
C23_DiscoveryDependsOnRootOnly ==
    dcCalls >= 1 =>
        IF Cardinality(ComposeFiles) = 1
        THEN ~dcLast.raised /\ \A f \in ComposeFiles : dcLast.returned = <<f>>
        ELSE dcLast.raised

----------------------------------------------------------------------------
(* Claims about tar_file_or_directory *)

\* C22: with override=False an archive is never written to a path that
\* already exists in the destination.
C22_NeverWritesExistingPath ==
    (tarCalls >= 1 /\ tarLast.raised = "none" /\ ~tarLast.override) => ~tarLast.existed

----------------------------------------------------------------------------
(* Claims about the directory check of update_version_numbers *)

\* C20: update_version_numbers on a path that is not an existing directory
\* raises NotADirectoryError and renames nothing.
C20_NotADirectoryRaises ==
    (calls >= 1 /\ ~dirExists) =>
        /\ uv_pc = "raised"
        /\ uvExc = "NotADirectoryError"
        /\ plan = <<>>
        /\ dir = dir0

\* a call on a path that is no directory has ended
C20_Witness ==
    calls = 1 /\ ~dirExists /\ uv_pc = "raised"

----------------------------------------------------------------------------
(* Claims about stopped_system and BackupBot.run *)

\* some name of storage_info was running when stopped_system was entered
WasRunning == \E name \in storageInfo : containers0[name] = "running"

\* C13: the stop is issued before the yield whether or not a service was
\* running, so while the body of the with statement runs the stop has been
\* issued and no service of the system is running.
C13_StoppedWhileBlockRuns ==
    ss_pc \in {"block", "tasks", "exit"} =>
        /\ issued.stop = 1 /\ stopRes = "ok"
        /\ \A s \in Services : containers[s] # "running"

\* the body runs after a stop that was issued although no name of storage_info
\* was running, and a service outside storage_info had been running
C13_Witness ==
    /\ ss_pc = "tasks" /\ Len(thist) > 0
    /\ ~WasRunning /\ issued.stop = 1
    /\ \E s \in Services : containers0[s] = "running"

\* C14: after a body that completed normally, docker-compose start has been
\* issued exactly if some name of storage_info was running when the running
\* containers were sampled; otherwise no start is issued and every service
\* stays stopped.
C14_StartIffWasRunning ==
    (blockEnded = "normal" /\ ss_pc # "exit") =>
        /\ issued.start = (IF WasRunning THEN 1 ELSE 0)
        /\ ~WasRunning => (startRes = "none" /\ \A s \in Services : containers[s] = "exited")

\* run returned without a start although a service outside storage_info had
\* been running
C14_Witness ==
    /\ ss_pc = "returned" /\ blockEnded = "normal"
    /\ ~WasRunning /\ issued.start = 0
    /\ \E s \in Services : containers0[s] = "running"

\* C15: the restart happens on every exit path: when the body raises and the
\* system was running before, docker-compose start has been issued when the
\* exception reaches the caller.
C15_StartWhenBlockRaises ==
    (blockEnded = "raised" /\ WasRunning) => issued.start = 1

\* C16: when stopped_system has completed, every service is in the state it
\* had before: running if it was running, stopped if it was stopped.
C16_StatePerServiceRestored ==
    ss_pc \in {"left", "returned"} =>
        \A s \in Services : containers[s] = containers0[s]

\* C17: a rejected stop or start is fatal and not retried: after a failed stop
\* RuntimeError is raised, the body never ran and no start was issued; after a
\* failed start RuntimeError is raised; each command is issued at most once.
C17_RejectedCommandIsFatal ==
    /\ issued.stop <= 1 /\ issued.start <= 1
    /\ stopRes \in {"invalid", "nonzero"} =>
        /\ ss_pc = "raised" /\ ssExc = "RuntimeError"
        /\ blockEnded = "no" /\ thist = <<>>
        /\ \A c \in 1..Len(runCalls) : runCalls[c] # "_run_backup_tasks"
        /\ issued.start = 0 /\ startRes = "none"
    /\ startRes \in {"invalid", "nonzero"} =>
        /\ ss_pc = "raised" /\ ssExc = "RuntimeError"
        /\ blockEnded = "normal"

\* docker-compose stop exited with a non-zero code
C17_Witness ==
    stopRes = "nonzero" /\ issued.stop = 1 /\ ss_pc = "raised"

\* C18: when run returns, update_file_versions has been called if a task
\* created a file.
C18_CreatedFilesAreRotated ==
    (ss_pc = "returned" /\ \E i \in 1..Len(thist) : thist[i].outcome = "ok") =>
        \E c \in 1..Len(runCalls) : runCalls[c] = "update_file_versions"

\* the tasks among the attempted ones that raised
RaisedTasks == {i \in 1..Len(thist) : thist[i].outcome \notin {"ok", "item_failed"}}

\* C19: once _run_backup_tasks has ended, it has returned, every task was
\* attempted in order, and every task that raised is logged and counted as an
\* error.
C19_EveryTaskAttempted ==
    blockEnded # "no" =>
        /\ blockEnded = "normal"
        /\ Len(thist) = Len(tasks)
        /\ \A i \in 1..Len(thist) : thist[i].service = tasks[i]
        /\ stats.error = Cardinality(RaisedTasks)
        /\ stats.success + stats.error = Len(tasks)
        /\ \A i \in RaisedTasks :
            \E l \in 1..Len(rlog) : rlog[l].task = i /\ rlog[l].level = "error"
====
